---- MODULE Spec2Model ----
(***************************************************************************)
(* Model of the SSE endpoint of svelte-in-prod (src/SSE/server.ts): the    *)
(* session registry (POST), the stream endpoint (GET) and the bounded-     *)
(* concurrency processor processConcurrently that GET's ReadableStream     *)
(* start() drives against the stream's controller; and of the client       *)
(* subscriber streamData (client.ts).                                      *)
(*                                                                         *)
(* JavaScript runs one task at a time.  A step of this model is one        *)
(* uninterrupted run of code: a handler up to its next await, a timer      *)
(* callback, or the continuation after an await.  Continuations queued by  *)
(* settled promises (microtasks) run before the next timer or I/O event.   *)
(***************************************************************************)
EXTENDS Integers, Sequences, FiniteSets, TLC

VARIABLES
    sessions,   \* the module-level Set `sessions` (server.ts:16)
    posts,      \* POST calls suspended at `await request.json()` (server.ts:131)
    nextId,     \* the next value uuidv4() returns (fresh on every call)
    streams,    \* per stream slot: the ReadableStream GET built and its processConcurrently run
    lastGet,    \* the most recent GET call: its sessionId and response status
    store,      \* client: the Map held by the writable store passed to streamData
    received,   \* client: the event.data payloads delivered to onmessage so far
    readyState  \* client: "none" before streamData, then the EventSource's state

vars == <<sessions, posts, nextId, streams, lastGet, store, received, readyState>>

client == <<store, received, readyState>>

----------------------------------------------------------------------------
(* Bounds of the model *)

MaxItems == 3         \* longest item list handed to processConcurrently directly
MaxConcurrency == 3   \* largest `concurrency` argument tried
MaxHeartbeats == 1    \* heartbeat chunks written per behaviour
MaxStreams == 2       \* streams the endpoint opens per behaviour
MaxPosts == 2         \* POST submissions per behaviour
MaxMessages == 3      \* data messages the client receives per behaviour

(* Program constants *)

DefaultConcurrency == 5   \* `concurrency = 5`, the default GET relies on
CLOSED == 2               \* EventSource.CLOSED

----------------------------------------------------------------------------
(* Values *)

StreamIds == 1..MaxStreams

\* Session ids a GET may ask for: those uuidv4() issues, whether or not the
\* registry holds them at the time.
SessionIds == 1..MaxPosts

\* An item list of length n; an item is identified by its position.
Iota(n) == [i \in 1..n |-> i]

\* Positions of an item list.
Positions == 1..MaxItems

\* The item lists a POST body carries: the empty list and a one-item list.
\* (Longer lists, and lists longer than the concurrency, are the runs of Spec.)
Bodies == {Iota(0), Iota(1)}

\* The chunks the code enqueues on the controller.
HeartbeatChunk == [kind |-> "heartbeat", item |-> 0]        \* ':\n\n'
EosChunk == [kind |-> "end-of-stream", item |-> 0]          \* 'event: end-of-stream\n\n'
SepChunk == [kind |-> "separator", item |-> 0]              \* '\n'
\* processItem's `data: ${item}\n`; a generic transform's non-empty string
\* for `item` is represented the same way.
DataChunk(item) == [kind |-> "data", item |-> item]

\* What a transform call can settle to: a non-empty string, an empty/null
\* result, or a rejection.
GenericTransform == {"data", "empty", "reject"}
\* processItem waits and then resolves to `data: ${item}\n`; it never rejects.
processItem == {"data"}

NoSession == [id |-> 0, body |-> <<>>]

\* The POST calls that can be in progress: the id generated, the body sent.
PostRequests == [id : 1..MaxPosts, body : Bodies]

\* A stream slot GET has not used yet.
NoStream ==
    [phase |-> "none", ctrl |-> "none", session |-> NoSession,
     items |-> <<>>, concurrency |-> 0, transform |-> {},
     queue |-> <<>>, activePromises |-> 0, tasks |-> <<>>, launched |-> <<>>,
     sink |-> <<>>, promise |-> "none", heartbeat |-> FALSE,
     clears |-> 0, unhandled |-> 0]

\* The transform call for one input position.
NewTask == [status |-> "queued", item |-> 0, outcome |-> "none"]

----------------------------------------------------------------------------
(* ReadableStreamDefaultController *)

\* enqueue() and close() throw a TypeError unless the stream is readable and
\* no close was requested.
CanCloseOrEnqueue(r) == r.ctrl = "readable"

----------------------------------------------------------------------------
(* processConcurrently *)

\* reject(err) of the returned promise: settles it only if still pending.
Reject(r) ==
    [r EXCEPT !.promise = IF @ = "pending" THEN "rejected" ELSE @]

\* resolve() of the returned promise.
Resolve(r) ==
    [r EXCEPT !.promise = IF @ = "pending" THEN "resolved" ELSE @]

\* Mutant: the heartbeat timer is not cleared on termination.
Terminate_NoClear(r) ==
    IF CanCloseOrEnqueue(r)
    THEN Resolve([r EXCEPT !.sink = Append(@, EosChunk)])
    ELSE [r EXCEPT !.unhandled = @ + 1]

\* The termination branch of processNext, lines 49-54.  The enqueue is outside
\* any try: when it throws, resolve() is skipped and the promise of this
\* processNext() call rejects with no handler attached.
Terminate(r) ==
    LET r1 == [r EXCEPT !.heartbeat = FALSE, !.clears = @ + 1]
    IN  IF CanCloseOrEnqueue(r1)
        THEN Resolve([r1 EXCEPT !.sink = Append(@, EosChunk)])
        ELSE [r1 EXCEPT !.unhandled = @ + 1]

\* Mutant: the guard keeps one worker slot free.
MustWait_OffByOne(r) == r.queue = <<>> \/ r.activePromises + 1 >= r.concurrency

\* The second guard of processNext, line 56.
MustWait(r) == r.queue = <<>> \/ r.activePromises >= r.concurrency

\* Mutant: queue.pop() in place of queue.shift().
Launch_Pop(r) ==
    LET pos == Len(r.items) - Len(r.queue) + 1
        item == r.queue[Len(r.queue)]
    IN  [r EXCEPT !.queue = SubSeq(@, 1, Len(@) - 1),
                  !.activePromises = @ + 1,
                  !.tasks[pos] = [status |-> "pending", item |-> item,
                                  outcome |-> "none"],
                  !.launched = Append(@, item)]

\* Lines 60-64 up to the await: dequeue, count, call the transform.
Launch(r) ==
    LET pos == Len(r.items) - Len(r.queue) + 1
    IN  [r EXCEPT !.queue = Tail(@),
                  !.activePromises = @ + 1,
                  !.tasks[pos] = [status |-> "pending", item |-> Head(r.queue),
                                  outcome |-> "none"],
                  !.launched = Append(@, Head(r.queue))]

\* Mutant: the termination test forgets `activePromises === 0`.
ProcessNext_EarlyEnd(r) ==
    IF r.queue = <<>> THEN Terminate(r)
    ELSE IF MustWait(r) THEN r
    ELSE Launch(r)

RECURSIVE LaunchAll(_)
LaunchAll(r) == IF r.queue = <<>> THEN r ELSE LaunchAll(Launch(r))

\* Mutant: every queued item is launched at once, whatever the limit.
ProcessNext_Unbounded(r) ==
    IF r.queue = <<>> /\ r.activePromises = 0 THEN Terminate(r)
    ELSE LaunchAll(r)

\* processNext(), run from its call to its first await or return.
ProcessNext(r) ==
    IF r.queue = <<>> /\ r.activePromises = 0 THEN Terminate(r)
    ELSE IF MustWait(r) THEN r
    ELSE Launch(r)

RECURSIVE LaunchLoop(_, _)

\* Mutant: the loop starts one worker too few.
LaunchLoop_OffByOne(r, i) ==
    IF i + 1 >= r.concurrency THEN r ELSE LaunchLoop(ProcessNext(r), i + 1)

\* The loop of lines 77-79.
LaunchLoop(r, i) ==
    IF i >= r.concurrency THEN r ELSE LaunchLoop(ProcessNext(r), i + 1)

\* processConcurrently(items, transform, controller, concurrency) up to the
\* return of the promise: lines 36-80.
ProcessConcurrently(session, items, transform, concurrency) ==
    LaunchLoop(
        [NoStream EXCEPT !.phase = "running", !.ctrl = "readable",
                         !.session = session,
                         !.items = items, !.concurrency = concurrency,
                         !.transform = transform,
                         !.queue = items,
                         !.tasks = [p \in 1..Len(items) |-> NewTask],
                         !.promise = "pending", !.heartbeat = TRUE],
        0)

\* Mutant: the test of line 65 is inverted, a non-empty result is not written.
WriteResult_SkipData(r, p) ==
    IF r.tasks[p].outcome = "reject" THEN Reject(r) ELSE r

\* Lines 65-68: the two enqueues of a non-empty result; a throw of enqueue is
\* caught by line 69 and rejects the promise.
WriteResult(r, p) ==
    IF r.tasks[p].outcome = "data"
    THEN IF CanCloseOrEnqueue(r)
         THEN [r EXCEPT !.sink = @ \o <<DataChunk(r.tasks[p].item), SepChunk>>]
         ELSE Reject(r)
    ELSE IF r.tasks[p].outcome = "reject" THEN Reject(r)
    ELSE r

\* Mutant: the finally block does not call processNext() again.
Continue_NoNext(r, p) ==
    [WriteResult(r, p) EXCEPT !.activePromises = @ - 1, !.tasks[p].status = "done"]

\* Mutant: after a rejection the finally block does not call processNext().
Continue_StopOnReject(r, p) ==
    LET r1 == WriteResult(r, p)
        r2 == [r1 EXCEPT !.activePromises = @ - 1, !.tasks[p].status = "done"]
    IN  IF r.tasks[p].outcome = "reject" THEN r2 ELSE ProcessNext(r2)

\* The continuation of processNext after `await processItem(item)` for input
\* position p: lines 64-74.
Continue(r, p) ==
    LET r1 == WriteResult(r, p)
        r2 == [r1 EXCEPT !.activePromises = @ - 1, !.tasks[p].status = "done"]
    IN  ProcessNext(r2)

----------------------------------------------------------------------------
(* Event loop *)

Settled(r) == {p \in DOMAIN r.tasks : r.tasks[p].status = "settled"}

Pending(r) == {p \in DOMAIN r.tasks : r.tasks[p].status = "pending"}

\* A continuation is queued: timers and I/O callbacks wait for it.
MicrotaskPending ==
    \E s \in StreamIds :
        \/ Settled(streams[s]) # {}
        \/ streams[s].phase = "running" /\ streams[s].promise \in {"resolved", "rejected"}

\* Number of chunks of kind k in a sink.
Count(sink, k) == Cardinality({i \in DOMAIN sink : sink[i].kind = k})

RECURSIVE SumHeartbeats(_)
SumHeartbeats(S) ==
    IF S = {} THEN 0
    ELSE LET s == CHOOSE x \in S : TRUE
         IN  Count(streams[s].sink, "heartbeat") + SumHeartbeats(S \ {s})

\* Heartbeat chunks written so far, over all streams.
HeartbeatsWritten == SumHeartbeats(StreamIds)

----------------------------------------------------------------------------
(* Actions of a stream *)

\* The promise the transform returned for position p settles.  processItem
\* settles from its setTimeout callback (line 85), which waits for queued
\* continuations like any timer; a generic transform may settle at any point.
Settle(s, p, o) ==
    /\ p \in Pending(streams[s])
    /\ o \in streams[s].transform
    /\ streams[s].transform = processItem => ~MicrotaskPending
    /\ streams' = [streams EXCEPT ![s].tasks[p].status = "settled",
                                  ![s].tasks[p].outcome = o]
    /\ UNCHANGED <<client, sessions, posts, nextId, lastGet>>

\* processNext resumes after its await for position p.
Resume(s, p) ==
    /\ p \in Settled(streams[s])
    /\ streams' = [streams EXCEPT ![s] = Continue(streams[s], p)]
    /\ UNCHANGED <<client, sessions, posts, nextId, lastGet>>

\* The setInterval callback of lines 39-45: enqueue a comment chunk; a throw
\* is caught and logged.
Heartbeat(s) ==
    /\ streams[s].heartbeat
    /\ ~MicrotaskPending
    /\ CanCloseOrEnqueue(streams[s]) => HeartbeatsWritten < MaxHeartbeats
    /\ streams' = [streams EXCEPT ![s].sink =
                       IF CanCloseOrEnqueue(streams[s])
                       THEN Append(@, HeartbeatChunk) ELSE @]
    /\ UNCHANGED <<client, sessions, posts, nextId, lastGet>>

\* Mutant: start() does not await processConcurrently and closes at once.
StartResume_Early(s) ==
    /\ streams[s].phase = "running"
    /\ streams' = [streams EXCEPT
                      ![s].phase = "started",
                      ![s].ctrl = IF CanCloseOrEnqueue(streams[s]) THEN "closed" ELSE @]
    /\ UNCHANGED <<client, sessions, posts, nextId, lastGet>>

\* start() resumes after `await processConcurrently(...)`, lines 110-112.
\* Resolved: controller.close(), which throws once the stream is no longer
\* readable.  Rejected, or close() threw: start() rejects and the stream
\* errors its controller if it is still readable.
StartResume(s) ==
    /\ streams[s].phase = "running"
    /\ streams[s].promise \in {"resolved", "rejected"}
    /\ streams' = [streams EXCEPT
                      ![s].phase = "started",
                      ![s].ctrl = IF ~CanCloseOrEnqueue(streams[s]) THEN @
                                  ELSE IF streams[s].promise = "resolved"
                                       THEN "closed" ELSE "errored"]
    /\ UNCHANGED <<client, sessions, posts, nextId, lastGet>>

\* Mutant: the cancel callback clears the registry.
Cancel_Clear(s) ==
    /\ streams[s].ctrl = "readable"
    /\ ~MicrotaskPending
    /\ streams' = [streams EXCEPT ![s].ctrl = "cancelled"]
    /\ sessions' = {}
    /\ UNCHANGED <<client, posts, nextId, lastGet>>

\* The client disconnects from a readable stream: the stream closes and calls
\* the cancel callback of lines 113-115.
Cancel(s) ==
    /\ streams[s].ctrl = "readable"
    /\ ~MicrotaskPending
    /\ streams' = [streams EXCEPT ![s].ctrl = "cancelled"]
    /\ sessions' = sessions \ {streams[s].session}
    /\ UNCHANGED <<client, posts, nextId, lastGet>>

----------------------------------------------------------------------------
(* Endpoint handlers *)

\* Mutant: the lookup takes any registered session, whatever its id.
FindSession_Any(sid) ==
    IF sessions # {} THEN CHOOSE x \in sessions : TRUE ELSE NoSession

\* Line 99: [...sessions].find((s) => s.id === sessionId).
FindSession(sid) ==
    IF \E x \in sessions : x.id = sid
    THEN CHOOSE x \in sessions : x.id = sid
    ELSE NoSession

\* GET, lines 96-125: 404 for an unknown session, else a new ReadableStream
\* whose start() runs processConcurrently with processItem and the default
\* concurrency.
GET(sid) ==
    LET session == FindSession(sid)
    IN  /\ ~MicrotaskPending
        /\ IF session = NoSession
           THEN /\ lastGet' = [sessionId |-> sid, status |-> 404]
                /\ UNCHANGED streams
           ELSE \E s \in StreamIds :
                  /\ streams[s].phase = "none"
                  /\ \A t \in 1..(s - 1) : streams[t].phase # "none"
                  /\ streams' = [streams EXCEPT ![s] =
                        ProcessConcurrently(session, session.body, processItem,
                                            DefaultConcurrency)]
                  /\ lastGet' = [sessionId |-> sid, status |-> 200]
        /\ UNCHANGED <<client, sessions, posts, nextId>>

\* POST up to `await request.json()`, lines 130-131.
PostBegin(body) ==
    /\ ~MicrotaskPending
    /\ nextId <= MaxPosts
    /\ posts' = posts \cup {[id |-> nextId, body |-> body]}
    /\ nextId' = nextId + 1
    /\ UNCHANGED <<client, sessions, streams, lastGet>>

\* Mutant: the id is read from a variable shared by the requests, which holds
\* the id generated last.
PostFinish_SharedId(post) ==
    /\ ~MicrotaskPending
    /\ post \in posts
    /\ posts' = posts \ {post}
    /\ sessions' = sessions \cup {[id |-> nextId - 1, body |-> post.body]}
    /\ UNCHANGED <<client, nextId, streams, lastGet>>

\* POST after the body arrived, lines 132-133.
PostFinish(post) ==
    /\ ~MicrotaskPending
    /\ post \in posts
    /\ posts' = posts \ {post}
    /\ sessions' = sessions \cup {post}
    /\ UNCHANGED <<client, nextId, streams, lastGet>>

\* start() of a stream calling processConcurrently with any transform and any
\* concurrency, for the session in the registry.
Run(k) ==
    /\ streams[1].phase = "none"
    /\ \E session \in sessions :
         streams' = [streams EXCEPT ![1] =
            ProcessConcurrently(session, session.body, GenericTransform, k)]
    /\ UNCHANGED <<client, sessions, posts, nextId, lastGet>>

----------------------------------------------------------------------------
(* Client subscriber: streamData *)

Keys == {"x", "y"}

Values == 1..3

\* A payload that JSON.parse rejects.
Malformed == <<>>

\* event.data of a data message: the text of {"key": k, "v": v}, or text that
\* is no JSON.
Payloads == {<<k, v>> : k \in Keys, v \in Values} \cup {Malformed}

\* parseData, by default JSON.parse: whether it throws on the payload.
ParseThrows(data) == Len(data) # 2

\* parseData on a payload it accepts: the record with its `key` field.
Parse(data) == [key |-> data[1], v |-> data[2]]

\* new Map(), README line 32.
EmptyMap == [k \in {} |-> 0]

\* Mutant: the store is set to a map holding the new record alone.
MapSet_Replace(m, k, rec) == [x \in {k} |-> rec]

\* Map.prototype.set: the entry of k is added or replaced, the rest kept.
MapSet(m, k, rec) == [x \in DOMAIN m \cup {k} |-> IF x = k THEN rec ELSE m[x]]

\* No streamData call yet.
ClientIdle ==
    /\ store = EmptyMap
    /\ received = <<>>
    /\ readyState = "none"

\* streamData up to its return, lines 90-115: the EventSource is constructed
\* and the three handlers are registered.
StreamData ==
    /\ readyState = "none"
    /\ readyState' = "open"
    /\ UNCHANGED <<sessions, posts, nextId, streams, lastGet, store, received>>

\* eventSource.onmessage, lines 99-102.  A throw of parseData leaves the
\* handler before store.update.
OnMessage(data) ==
    /\ readyState = "open"
    /\ Len(received) < MaxMessages
    /\ received' = Append(received, data)
    /\ store' = IF ParseThrows(data) THEN store
                ELSE MapSet(store, Parse(data).key, Parse(data))
    /\ UNCHANGED <<sessions, posts, nextId, streams, lastGet, readyState>>

\* The "end-of-stream" listener, lines 104-107.
OnEndOfStream ==
    /\ readyState = "open"
    /\ readyState' = "closed"
    /\ UNCHANGED <<sessions, posts, nextId, streams, lastGet, store, received>>

\* eventSource.onerror, lines 109-115: closes when event.eventPhase equals
\* EventSource.CLOSED.
OnError(eventPhase) ==
    /\ readyState = "open"
    /\ readyState' = IF eventPhase = CLOSED THEN "closed" ELSE readyState
    /\ UNCHANGED <<sessions, posts, nextId, streams, lastGet, store, received>>

----------------------------------------------------------------------------
(* Specifications *)

NoGet == [sessionId |-> 0, status |-> 0]

\* One processConcurrently run over any item list.
Init ==
    /\ \E n \in 0..MaxItems : sessions = {[id |-> 1, body |-> Iota(n)]}
    /\ posts = {}
    /\ nextId = 2
    /\ streams = [s \in StreamIds |-> NoStream]
    /\ lastGet = NoGet
    /\ ClientIdle

Next ==
    \/ \E k \in 1..MaxConcurrency : Run(k)
    \/ \E s \in StreamIds, p \in Positions, o \in GenericTransform : Settle(s, p, o)
    \/ \E s \in StreamIds, p \in Positions : Resume(s, p)
    \/ \E s \in StreamIds : Heartbeat(s)
    \/ \E s \in StreamIds : StartResume(s)
    \/ \E s \in StreamIds : Cancel(s)

Spec == Init /\ [][Next]_vars

\* The server from start-up: an empty registry and no stream.
ServerInit ==
    /\ sessions = {}
    /\ posts = {}
    /\ nextId = 1
    /\ streams = [s \in StreamIds |-> NoStream]
    /\ lastGet = NoGet
    /\ ClientIdle

ServerNext ==
    \/ \E body \in Bodies : PostBegin(body)
    \/ \E post \in PostRequests : PostFinish(post)
    \/ \E sid \in SessionIds : GET(sid)
    \/ \E s \in StreamIds, p \in Positions, o \in processItem : Settle(s, p, o)
    \/ \E s \in StreamIds, p \in Positions : Resume(s, p)
    \/ \E s \in StreamIds : Heartbeat(s)
    \/ \E s \in StreamIds : StartResume(s)
    \/ \E s \in StreamIds : Cancel(s)

ServerSpec == ServerInit /\ [][ServerNext]_vars

\* The client subscriber on its own, receiving any sequence of messages.
ClientNext ==
    \/ StreamData
    \/ \E data \in Payloads : OnMessage(data)
    \/ OnEndOfStream
    \/ \E eventPhase \in 0..CLOSED : OnError(eventPhase)

ClientSpec == ServerInit /\ [][ClientNext]_vars

\* The scheduling the runs of Spec rely on: the call is made, every launched
\* transform settles, and the event loop runs every queued continuation.
Fairness ==
    /\ WF_vars(\E k \in 1..MaxConcurrency : Run(k))
    /\ \A s \in StreamIds :
         /\ \A p \in Positions : WF_vars(\E o \in GenericTransform : Settle(s, p, o))
         /\ \A p \in Positions : WF_vars(Resume(s, p))
         /\ WF_vars(StartResume(s))

FairSpec == Spec /\ Fairness

\* A run as in Init, the registry holding a second session as well.
TwoSessionsInit ==
    /\ \E n \in 0..MaxItems :
         sessions = {[id |-> 1, body |-> Iota(n)], [id |-> 2, body |-> <<>>]}
    /\ posts = {}
    /\ nextId = 3
    /\ streams = [s \in StreamIds |-> NoStream]
    /\ lastGet = NoGet
    /\ ClientIdle

TwoSessionsSpec == TwoSessionsInit /\ [][Next]_vars /\ Fairness

----------------------------------------------------------------------------
(* Properties *)

Opened == {s \in StreamIds : streams[s].phase # "none"}

\* Positions of the chunks of kind k in a sink.
Where(sink, k) == {i \in DOMAIN sink : sink[i].kind = k}

\* Some transform of the run has rejected and processNext has handled it.
RejectionHandled(r) ==
    \E p \in DOMAIN r.tasks :
        r.tasks[p].status = "done" /\ r.tasks[p].outcome = "reject"

\* C1: at any moment the transforms launched and not yet settled number at
\* most `concurrency`, and activePromises, which counts them until their
\* continuation has run, is at most `concurrency` too.
C1_BoundedInFlight ==
    \A s \in Opened :
        /\ Cardinality(Pending(streams[s])) <= streams[s].activePromises
        /\ streams[s].activePromises <= streams[s].concurrency

\* C1 witness: the limit is reached while items are still queued.
C1_Witness ==
    \E s \in Opened :
        /\ Cardinality(Pending(streams[s])) = streams[s].concurrency
        /\ streams[s].concurrency >= 2
        /\ streams[s].queue # <<>>

\* C2: the transform is never called twice for an item and the calls follow
\* the input; when every launched transform settles (fairness of FairSpec),
\* every item of the input is eventually handed to the transform.
C2_EachItemOnce ==
    /\ [](\A s \in Opened :
            /\ Len(streams[s].launched) <= Len(streams[s].items)
            /\ \A i \in DOMAIN streams[s].launched :
                 streams[s].launched[i] = streams[s].items[i])
    /\ <>(\E s \in Opened :
            streams[s].launched = streams[s].items /\ streams[s].queue = <<>>)

\* C2 witness: a list longer than the concurrency has been handed over item by
\* item, one of the transforms having rejected.
C2_Witness ==
    \E s \in Opened :
        /\ Len(streams[s].items) = MaxItems
        /\ streams[s].concurrency < MaxItems
        /\ streams[s].launched = streams[s].items
        /\ RejectionHandled(streams[s])

\* C3 (as claimed): a run whose promise resolved, so one in which no transform
\* rejected, has written exactly one end-of-stream chunk.
C3_ExactlyOneTerminal ==
    \A s \in Opened :
        streams[s].promise = "resolved" =>
            Count(streams[s].sink, "end-of-stream") = 1

\* C4 (as claimed): once a transform has rejected, the returned promise is
\* rejected and the sink holds no end-of-stream chunk.
C4_NoTerminalAfterReject ==
    \A s \in Opened :
        RejectionHandled(streams[s]) =>
            /\ streams[s].promise = "rejected"
            /\ Count(streams[s].sink, "end-of-stream") = 0

\* C5 (as claimed): a session is consumed by at most one stream: no two streams
\* were opened by GETs with the same sessionId.
C5_SingleConsumption ==
    \A s, t \in Opened :
        s # t => streams[s].session.id # streams[t].session.id

\* C6: wherever an end-of-stream chunk stands in the sink, the data chunk of
\* every item whose transform returned a non-empty result stands before it and
\* no data chunk stands after it.
C6_TerminalAfterData ==
    \A s \in Opened :
        LET r == streams[s] IN
        \A i \in Where(r.sink, "end-of-stream") :
            /\ \A j \in Where(r.sink, "data") : j < i
            /\ \A p \in DOMAIN r.tasks :
                 r.tasks[p].outcome = "data" =>
                    \E j \in 1..(i - 1) : r.sink[j] = DataChunk(r.tasks[p].item)

\* C6 witness: a run without rejection in which two transforms were in flight
\* together ends with both data chunks before the end-of-stream chunk.
C6_Witness ==
    \E s \in Opened :
        /\ streams[s].concurrency >= 2
        /\ Count(streams[s].sink, "data") >= 2
        /\ Count(streams[s].sink, "end-of-stream") = 1
        /\ streams[s].promise = "resolved"

\* C7: no heartbeat chunk stands after an end-of-stream chunk in the sink, and
\* once an end-of-stream chunk is in the sink the heartbeat timer is cancelled,
\* so that no later tick can write one.
C7_NoHeartbeatAfterTerminal ==
    \A s \in Opened :
        /\ \A i \in Where(streams[s].sink, "end-of-stream") :
             \A j \in Where(streams[s].sink, "heartbeat") : j < i
        /\ Where(streams[s].sink, "end-of-stream") # {} => ~streams[s].heartbeat

\* C7 witness: a heartbeat was written during the run and the run then wrote
\* its end-of-stream chunk, after which the timer is off.
C7_Witness ==
    \E s \in Opened :
        /\ Count(streams[s].sink, "heartbeat") >= 1
        /\ Count(streams[s].sink, "end-of-stream") >= 1
        /\ Count(streams[s].sink, "data") >= 1
        /\ ~streams[s].heartbeat

C9_NotFound ==
    [][\A sid \in SessionIds :
          (/\ lastGet' # lastGet
           /\ lastGet'.sessionId = sid
           /\ ~\E x \in sessions : x.id = sid)
          => (lastGet'.status = 404 /\ UNCHANGED <<sessions, streams>>)]_vars

\* C9 witness: a GET was answered 404 while the registry held another session.
C9_Witness ==
    /\ lastGet.status = 404
    /\ sessions # {}
    /\ ~\E x \in sessions : x.id = lastGet.sessionId

\* C10 (as claimed): no write the processor attempts raises an uncaught
\* exception or an unhandled promise rejection.
C10_WritesSuppressed ==
    \A s \in Opened : streams[s].unhandled = 0

\* The data chunks of a sink, in the order written.
DataOf(sink) == SelectSeq(sink, LAMBDA c : c.kind = "data")

\* The data chunks a transform that echoes every item produces for a list.
Echo(items) == [i \in DOMAIN items |-> DataChunk(items[i])]

\* Every transform settled so far returned a non-empty string.
OnlyData(r) ==
    \A p \in DOMAIN r.tasks : r.tasks[p].outcome \in {"none", "data"}

\* C11: with concurrency 1 and a transform that returns a non-empty line for
\* every item, the data chunks in the sink are at any time the chunks of a
\* prefix of the input, in input order; once the run has resolved they are
\* those of the whole input, one per item, and exactly one end-of-stream chunk
\* follows them as the last chunk of the sink.
C11_SequentialEcho ==
    \A s \in Opened :
        LET r == streams[s] IN
        (r.concurrency = 1 /\ OnlyData(r)) =>
            /\ Len(DataOf(r.sink)) <= Len(r.items)
            /\ DataOf(r.sink) = SubSeq(Echo(r.items), 1, Len(DataOf(r.sink)))
            /\ r.promise = "resolved" =>
                  /\ DataOf(r.sink) = Echo(r.items)
                  /\ Count(r.sink, "end-of-stream") = 1
                  /\ r.sink[Len(r.sink)] = EosChunk

\* C11 witness: the three-item list has been streamed with concurrency 1.
C11_Witness ==
    \E s \in Opened :
        /\ streams[s].concurrency = 1
        /\ Len(streams[s].items) = MaxItems
        /\ OnlyData(streams[s])
        /\ streams[s].promise = "resolved"
        /\ DataOf(streams[s].sink) = Echo(streams[s].items)

\* Positions of the received payloads that parse to a record with key k.
Occurrences(k) ==
    {i \in DOMAIN received : ~ParseThrows(received[i]) /\ Parse(received[i]).key = k}

Max(S) == CHOOSE i \in S : \A j \in S : j <= i

\* C12: the store maps exactly the keys that occurred in the received messages,
\* each to the record of the last message with that key; and a message leaves
\* the entry of every other key as it was.
C12_LastWriteWins ==
    /\ [](/\ DOMAIN store = {k \in Keys : Occurrences(k) # {}}
          /\ \A k \in DOMAIN store : store[k] = Parse(received[Max(Occurrences(k))]))
    /\ [][received' # received =>
            \A k \in DOMAIN store :
                (ParseThrows(received'[Len(received')])
                   \/ Parse(received'[Len(received')]).key # k)
                => (k \in DOMAIN store' /\ store'[k] = store[k])]_vars

\* C12 witness: x with v 1, then x with v 2, then y with v 3 were received; the
\* store maps x to the second record and y to the third.
C12_Witness ==
    /\ received = << <<"x", 1>>, <<"x", 2>>, <<"y", 3>> >>
    /\ DOMAIN store = {"x", "y"}
    /\ store["x"] = [key |-> "x", v |-> 2]
    /\ store["y"] = [key |-> "y", v |-> 3]

\* C13: for any concurrency the transform calls made so far are those of a
\* prefix of the input, made in input order: the i-th call is for the i-th item,
\* and no item is handed over while an earlier one is still queued.
C13_InputOrder ==
    \A s \in Opened :
        LET r == streams[s] IN
        /\ r.launched = SubSeq(r.items, 1, Len(r.launched))
        /\ r.queue = SubSeq(r.items, Len(r.launched) + 1, Len(r.items))
        /\ \A i, j \in DOMAIN r.tasks :
             (i < j /\ r.tasks[j].status # "queued") =>
                 (r.tasks[i].status # "queued" /\ r.tasks[i].item = r.items[i])

\* C13 witness: two workers have taken the three items, the third while an
\* earlier transform was still in flight.
C13_Witness ==
    \E s \in Opened :
        /\ streams[s].concurrency = 2
        /\ Len(streams[s].items) = MaxItems
        /\ streams[s].launched = streams[s].items
        /\ Cardinality(Pending(streams[s])) = 2

\* C14 (as claimed): once a rejection of a transform has been handled and the
\* returned promise is rejected, no step adds a data chunk to the sink.
C14_NoDataAfterReject ==
    [][\A s \in StreamIds :
          (RejectionHandled(streams[s]) /\ streams[s].promise = "rejected")
          => Count(streams'[s].sink, "data") = Count(streams[s].sink, "data")]_vars

\* C15: in the stream endpoint, where no transform rejects, a controller is
\* closed only once the promise of processConcurrently has resolved and the
\* heartbeat timer is off, and from then on no step writes a chunk of any kind
\* to its sink or reopens it; this for the empty item list as for the others.
C15_CloseAfterResolve ==
    /\ [](\A s \in Opened :
            streams[s].ctrl = "closed" =>
                /\ streams[s].promise = "resolved"
                /\ ~streams[s].heartbeat
                /\ streams[s].sink[Len(streams[s].sink)] = EosChunk)
    /\ [][\A s \in StreamIds :
            streams[s].ctrl = "closed" =>
                /\ streams'[s].sink = streams[s].sink
                /\ streams'[s].ctrl = "closed"]_vars

\* C15 witness: the endpoint has closed a stream over the empty list and a
\* stream over a list of one item, the latter after a heartbeat and the data
\* chunk.
C15_Witness ==
    \E s, t \in Opened :
        /\ streams[s].ctrl = "closed" /\ streams[s].items = <<>>
        /\ streams[t].ctrl = "closed" /\ streams[t].items # <<>>
        /\ Count(streams[t].sink, "data") = 1
        /\ Count(streams[t].sink, "heartbeat") = 1

\* Every item of the run has been handed to the transform and every
\* continuation has run.
AllDone(r) ==
    /\ r.launched = r.items
    /\ \A p \in DOMAIN r.tasks : r.tasks[p].status = "done"

\* C16: the step in which the client disconnects removes the session of the
\* stream from the registry and no other, and leaves the queue, the tasks in
\* flight and their count as they were; the session stays absent afterwards;
\* and the run goes on: from some point on every queued item of a cancelled
\* stream has been handed to the transform and every continuation has run.
C16_CancelFrame ==
    /\ [][\A s \in StreamIds :
            (streams[s].ctrl = "readable" /\ streams'[s].ctrl = "cancelled") =>
                /\ sessions' = sessions \ {streams[s].session}
                /\ streams'[s] = [streams[s] EXCEPT !.ctrl = "cancelled"]]_vars
    /\ [](\A s \in Opened :
            streams[s].ctrl = "cancelled" => streams[s].session \notin sessions)
    /\ <>[](\A s \in StreamIds :
              streams[s].ctrl = "cancelled" => AllDone(streams[s]))

\* C16 witness: the client has disconnected with an item queued and a transform
\* in flight; the other session is still registered, the stream's is not.
C16_Witness ==
    \E s \in Opened :
        /\ streams[s].ctrl = "cancelled"
        /\ streams[s].queue # <<>>
        /\ Pending(streams[s]) # {}
        /\ streams[s].session \notin sessions
        /\ \E x \in sessions : x.id # streams[s].session.id

\* The queue is empty and no transform is in flight or awaiting its
\* continuation.
Quiescent(r) ==
    /\ r.queue = <<>>
    /\ r.activePromises = 0
    /\ Pending(r) \cup Settled(r) = {}

\* C17 (as claimed): the heartbeat timer of a run is cancelled exactly once:
\* clearInterval is called once, and only with the queue empty and no transform
\* in flight, so that the timer is off exactly in such states.
C17_TimerCancelledOnce ==
    \A s \in Opened :
        /\ ~streams[s].heartbeat <=> Quiescent(streams[s])
        /\ streams[s].clears = (IF Quiescent(streams[s]) THEN 1 ELSE 0)

\* C18: whatever the interleaving of the POSTs, the ids of the submissions
\* under way and of the registered sessions are pairwise distinct and were all
\* generated; a POST that completes adds one entry to the registry, the one
\* with its own id and its own item list; and a GET that opens a stream runs it
\* over the item list of the registered entry with the requested id.
C18_ConcurrentPosts ==
    /\ [](/\ \A x, y \in sessions \cup posts : x.id = y.id => x = y
          /\ \A x \in sessions \cup posts : x.id \in 1..(nextId - 1))
    /\ [][posts' # posts /\ nextId' = nextId =>
            \E post \in posts :
                /\ posts' = posts \ {post}
                /\ post \notin sessions
                /\ sessions' = sessions \cup {post}]_vars
    /\ [][\A s \in StreamIds :
            (streams[s].phase = "none" /\ streams'[s].phase # "none") =>
                /\ lastGet'.status = 200
                /\ \E x \in sessions :
                     /\ x.id = lastGet'.sessionId
                     /\ streams'[s].session = x
                     /\ streams'[s].items = x.body]_vars

\* C18 witness: of two POSTs under way together the second has registered its
\* session first, and a GET with its id streams its list while the first POST
\* is still waiting for its body.
C18_Witness ==
    \E x \in posts, y \in sessions, s \in Opened :
        /\ x.id < y.id
        /\ x.body # y.body
        /\ streams[s].session = y
        /\ streams[s].items = y.body
        /\ lastGet = [sessionId |-> y.id, status |-> 200]

\* C19: in every state between two steps of the event loop, a run whose queue
\* is not empty has `concurrency` transforms under way: activePromises equals
\* the concurrency, that many launched items have not had their continuation
\* run, and unless one has just settled and awaits its continuation, that many
\* transforms are pending.
C19_WorkConserving ==
    \A s \in Opened :
        LET r == streams[s] IN
        r.queue # <<>> =>
            /\ r.activePromises = r.concurrency
            /\ Cardinality(Pending(r) \cup Settled(r)) = r.concurrency
            /\ Settled(r) = {} => Cardinality(Pending(r)) = r.concurrency

\* C19 witness: after a completion handler has run, the freed worker slot is
\* taken again and an item is still queued.
C19_Witness ==
    \E s \in Opened :
        /\ streams[s].queue # <<>>
        /\ Cardinality(Pending(streams[s])) = streams[s].concurrency
        /\ \E p \in DOMAIN streams[s].tasks : streams[s].tasks[p].status = "done"

\* C20: in every run in which the launched transforms settle and their
\* continuations run (fairness of FairSpec), whether they succeed, return
\* nothing or reject, and whether or not the client disconnects, the heartbeat
\* timer is eventually off for good; and a timer that is off fires no tick, so
\* heartbeat writes stop with it.
C20_TimerNeverLeaks ==
    /\ <>[](Opened # {} /\ \A s \in Opened : ~streams[s].heartbeat)
    /\ [](\A s \in StreamIds : ~streams[s].heartbeat => ~ENABLED Heartbeat(s))

\* C20 witness: a run in which a heartbeat was written and a transform rejected
\* has launched every item and ended with its timer off.
C20_Witness ==
    \E s \in Opened :
        /\ Len(streams[s].items) >= 2
        /\ RejectionHandled(streams[s])
        /\ Count(streams[s].sink, "heartbeat") >= 1
        /\ Quiescent(streams[s])
        /\ ~streams[s].heartbeat

====
